---------------------------- MODULE Spec2Model ----------------------------
(***************************************************************************)
(* Model of the photo restoration pipeline of src/src/lib/image-processing *)
(* .ts (enhanceImageData, boxBlur and the scalar colour operations) and of *)
(* the page state of src/src/app/page.tsx that feeds it (adjustments,      *)
(* presets, sliders, upload).                                              *)
(*                                                                         *)
(* Numbers.  The code computes in IEEE doubles and stores the working      *)
(* buffer in a Float32Array.  TLC has only integers, so a channel value v  *)
(* is held as the integer round(v * Scale) (fixed point, resolution        *)
(* 1/Scale) and every product or quotient is rounded to that resolution    *)
(* (RoundDiv).  Integral values, the multiples of 0.2 that the exposure    *)
(* offset produces and the contrast factor 1 are exact in this             *)
(* representation.  NaN (an out-of-range typed-array read that reaches an  *)
(* arithmetic operation) is the distinguished value NaN, which the         *)
(* arithmetic helpers propagate as IEEE arithmetic does.                   *)
(*                                                                         *)
(* Buffers.  Every typed array is an object of the variable heap, named by *)
(* its index, so that aliasing and in-place writes are observable.         *)
(***************************************************************************)
EXTENDS Integers, Sequences, FiniteSets, TLC

(***************************************************************************)
(* Bounds of the model.                                                    *)
(***************************************************************************)
\* Uploaded images are W x H with W, H in 1..MaxSide.
MaxSide == 2
\* Slider edits made between two preset clicks, resets or uploads.
MaxEdits == 1
\* A slider position between the two ends of the track.
SamplePosition == 10

(***************************************************************************)
(* Fixed-point arithmetic.                                                 *)
(***************************************************************************)
Scale == 100

NaN == -1000000000

F(n) == n * Scale

IsNaN(x) == x = NaN

\* n / d rounded to the nearest integer (d > 0).
RoundDiv(n, d) == (2 * n + d) \div (2 * d)

\* IEEE addition and subtraction: NaN absorbs.
Plus(a, b) == IF IsNaN(a) \/ IsNaN(b) THEN NaN ELSE a + b

Minus(a, b) == IF IsNaN(a) \/ IsNaN(b) THEN NaN ELSE a - b

\* a * (num / den) for a rational factor num/den, den > 0.
Times(a, num, den) == IF IsNaN(a) THEN NaN ELSE RoundDiv(a * num, den)

Min2(a, b) == IF a < b THEN a ELSE b

Max2(a, b) == IF a > b THEN a ELSE b

(***************************************************************************)
(* Scalar colour operations (image-processing.ts lines 14-112).            *)
(* Channel values are fixed-point; NaN inputs behave as in IEEE            *)
(* arithmetic: sums and products are NaN, comparisons are false.           *)
(***************************************************************************)
\* Math.min(max, Math.max(min, value)); NaN stays NaN.
clamp(value, min, max) == IF IsNaN(value) THEN NaN ELSE Min2(max, Max2(min, value))

\* clamp with its default bounds 0 and 255.
clampByte(value) == clamp(value, 0, F(255))

\* start + (end - start) * amount, amount given in hundredths.
lerp(start, end, amount) == Plus(start, Times(Minus(end, start), amount, 100))

DEFAULT_ALPHA == 255

luminance(r, g, b) ==
  IF IsNaN(r) \/ IsNaN(g) \/ IsNaN(b)
  THEN NaN
  ELSE RoundDiv(2126 * r + 7152 * g + 722 * b, 10000)

\* amount and vibrance in hundredths (saturation / 100, vibrance / 100).
adjustSaturation(r, g, b, amount, vibrance) ==
  IF amount = 0 /\ vibrance = 0
  THEN <<r, g, b>>
  ELSE LET gray == luminance(r, g, b)
           satFactor == 100 + amount
           vibFactor == 100 + vibrance
           enhance(channel) ==
             IF IsNaN(gray) \/ IsNaN(channel)
             THEN NaN
             ELSE clampByte(lerp(gray, channel, satFactor)
                            + RoundDiv(RoundDiv((channel - gray) * (vibFactor - 100), 100)
                                       * (F(255) - gray), F(255)))
       IN <<enhance(r), enhance(g), enhance(b)>>

applyShadowHighlight(r, g, b, shadowLift, highlightRecovery) ==
  IF shadowLift = 0 /\ highlightRecovery = 0
  THEN <<r, g, b>>
  ELSE LET gray == luminance(r, g, b)
           shadowBoost ==
             IF ~IsNaN(gray) /\ gray < F(118) /\ shadowLift > 0
             THEN RoundDiv(shadowLift * (F(118) - gray) * 6, 118 * 10)
             ELSE 0
           highlightReduction ==
             IF ~IsNaN(gray) /\ gray > F(170) /\ highlightRecovery > 0
             THEN RoundDiv(highlightRecovery * (gray - F(170)) * 7, (255 - 170) * 10)
             ELSE 0
           adjustChannel(channel) ==
             clampByte(Plus(channel, shadowBoost - highlightReduction))
       IN <<adjustChannel(r), adjustChannel(g), adjustChannel(b)>>

\* removeSepia with the guard written "amount < 0": a zero amount is processed.
removeSepia_GuardBelowZero(r, g, b, amount) ==
  IF amount < 0
  THEN <<r, g, b>>
  ELSE LET gray == luminance(r, g, b)
           strength == RoundDiv(amount * 75, 100)
           cooledR == clampByte(Minus(r, strength))
           cooledG == clampByte(Minus(g, RoundDiv(strength * 5, 10)))
           cooledB == clampByte(Plus(b, RoundDiv(strength * 6, 10)))
       IN <<lerp(gray, cooledR, 75), lerp(gray, cooledG, 85), lerp(gray, cooledB, 110)>>

\* amount is a channel-scale quantity (sepia * 100); the three results are
\* returned as lerp computes them.
removeSepia(r, g, b, amount) ==
  IF amount <= 0
  THEN <<r, g, b>>
  ELSE LET gray == luminance(r, g, b)
           strength == RoundDiv(amount * 75, 100)
           cooledR == clampByte(Minus(r, strength))
           cooledG == clampByte(Minus(g, RoundDiv(strength * 5, 10)))
           cooledB == clampByte(Plus(b, RoundDiv(strength * 6, 10)))
       IN <<lerp(gray, cooledR, 75), lerp(gray, cooledG, 85), lerp(gray, cooledB, 110)>>

applyWarmth(r, g, b, warmth) ==
  IF warmth = 0
  THEN <<r, g, b>>
  ELSE LET warmAmount == IF warmth > 0 THEN RoundDiv(F(warmth) * 12, 10) ELSE F(warmth)
           coolAmount == IF warmth < 0 THEN RoundDiv(F(warmth) * (-11), 10) ELSE 0
       IN <<clampByte(Plus(r, warmAmount)),
            clampByte(Plus(g, RoundDiv(warmAmount * 35, 100))),
            clampByte(Minus(b, RoundDiv(warmAmount * 8, 10) + coolAmount))>>

(***************************************************************************)
(* Adjustments, presets and sliders.                                       *)
(***************************************************************************)
DEFAULT_ADJUSTMENTS ==
  [exposure |-> 6, contrast |-> 12, saturation |-> 16, vibrance |-> 18,
   warmth |-> 4, sepiaReduction |-> 30, shadowLift |-> 12,
   highlightRecovery |-> 8, clarity |-> 14, denoise |-> 18]

CLEAN_SLATE_ADJUSTMENTS ==
  [exposure |-> 0, contrast |-> 0, saturation |-> 0, vibrance |-> 0,
   warmth |-> 0, sepiaReduction |-> 0, shadowLift |-> 0,
   highlightRecovery |-> 0, clarity |-> 0, denoise |-> 0]

\* PRESETS with "cores" spreading CLEAN_SLATE_ADJUSTMENTS instead of
\* DEFAULT_ADJUSTMENTS.
PRESETS_CoresFromCleanSlate ==
  << [id |-> "auto", adjustments |-> DEFAULT_ADJUSTMENTS],
     [id |-> "cores",
      adjustments |-> [CLEAN_SLATE_ADJUSTMENTS EXCEPT !.saturation = 24, !.vibrance = 26,
                         !.warmth = 12, !.shadowLift = 8, !.highlightRecovery = 6]],
     [id |-> "detalhes",
      adjustments |-> [DEFAULT_ADJUSTMENTS EXCEPT !.clarity = 26, !.contrast = 18,
                         !.denoise = 10, !.shadowLift = 10]],
     [id |-> "suave",
      adjustments |-> [DEFAULT_ADJUSTMENTS EXCEPT !.exposure = 4, !.contrast = 6,
                         !.clarity = 6, !.denoise = 32, !.warmth = 2,
                         !.vibrance = 12]] >>

\* page.tsx PRESETS: each entry spreads DEFAULT_ADJUSTMENTS and overrides fields.
PRESETS ==
  << [id |-> "auto", adjustments |-> DEFAULT_ADJUSTMENTS],
     [id |-> "cores",
      adjustments |-> [DEFAULT_ADJUSTMENTS EXCEPT !.saturation = 24, !.vibrance = 26,
                         !.warmth = 12, !.shadowLift = 8, !.highlightRecovery = 6]],
     [id |-> "detalhes",
      adjustments |-> [DEFAULT_ADJUSTMENTS EXCEPT !.clarity = 26, !.contrast = 18,
                         !.denoise = 10, !.shadowLift = 10]],
     [id |-> "suave",
      adjustments |-> [DEFAULT_ADJUSTMENTS EXCEPT !.exposure = 4, !.contrast = 6,
                         !.clarity = 6, !.denoise = 32, !.warmth = 2,
                         !.vibrance = 12]] >>

SLIDERS ==
  << [key |-> "exposure", min |-> -40, max |-> 40],
     [key |-> "contrast", min |-> -40, max |-> 60],
     [key |-> "saturation", min |-> -40, max |-> 60],
     [key |-> "vibrance", min |-> -30, max |-> 60],
     [key |-> "warmth", min |-> -30, max |-> 40],
     [key |-> "sepiaReduction", min |-> 0, max |-> 80],
     [key |-> "shadowLift", min |-> 0, max |-> 40],
     [key |-> "highlightRecovery", min |-> 0, max |-> 40],
     [key |-> "clarity", min |-> 0, max |-> 60],
     [key |-> "denoise", min |-> 0, max |-> 60] >>

\* The positions a slider is dragged to in the model: both ends of its track
\* and one position in between.
SliderPositions(slider) == {slider.min, slider.max, SamplePosition}

(***************************************************************************)
(* Typed arrays.  A buffer is a sequence of fixed-point values; the code's *)
(* index i is position i + 1.                                              *)
(***************************************************************************)
\* buffer[i]: an out-of-range read yields undefined, NaN in arithmetic.
Load(buffer, i) == IF i + 1 \in 1..Len(buffer) THEN buffer[i + 1] ELSE NaN

\* The pixels the loops "for (i = 0; i < length; i += 4)" visit.
PixelStarts(length) == {i \in 0..(length - 1) : i % 4 = 0}

(***************************************************************************)
(* boxBlur (lines 114-155): the contents of the result buffer.             *)
(***************************************************************************)
\* The window offsets <<ky, kx>> in loop order.
WindowOffsets ==
  << <<-1, -1>>, <<-1, 0>>, <<-1, 1>>, <<0, -1>>, <<0, 0>>, <<0, 1>>,
     <<1, -1>>, <<1, 0>>, <<1, 1>> >>

\* WindowCells without the test on the column: a window at the left or right
\* border runs on into the neighbouring row.
WindowCells_NoColumnCheck(x, y, width, height) ==
  SelectSeq([k \in 1..Len(WindowOffsets) |->
               <<y + WindowOffsets[k][1], x + WindowOffsets[k][2]>>],
            LAMBDA cell : cell[1] >= 0 /\ cell[1] < height)

\* The in-bounds cells <<yy, xx>> of the window centred on (x, y), in loop order.
WindowCells(x, y, width, height) ==
  SelectSeq([k \in 1..Len(WindowOffsets) |->
               <<y + WindowOffsets[k][1], x + WindowOffsets[k][2]>>],
            LAMBDA cell : /\ cell[1] >= 0 /\ cell[1] < height
                          /\ cell[2] >= 0 /\ cell[2] < width)

\* sum over the cells of source[idx + channel], idx = (yy * width + xx) * 4.
WindowSum(source, cells, width, channel) ==
  LET acc[k \in 0..Len(cells)] ==
        IF k = 0 THEN 0
        ELSE Plus(acc[k - 1],
                  Load(source, (cells[k][1] * width + cells[k][2]) * 4 + channel))
  IN acc[Len(cells)]

\* result[target + channel] for the pixel (x, y): sum / samples.
BlurredValue(source, x, y, width, height, channel) ==
  LET cells == WindowCells(x, y, width, height)
      samples == Len(cells)
  IN Times(WindowSum(source, cells, width, channel), 1, samples)

\* A write to result[target + channel] lands only inside the buffer; cells of
\* the result that no pixel (x, y) addresses keep the 0 they were allocated with.
boxBlur(source, width, height) ==
  [j \in 1..Len(source) |->
     LET pixel == (j - 1) \div 4
         channel == (j - 1) % 4
     IN IF width > 0 /\ pixel < width * height
        THEN BlurredValue(source, pixel % width, pixel \div width, width, height, channel)
        ELSE 0]

(***************************************************************************)
(* enhanceImageData (lines 157-244), pass by pass.                         *)
(***************************************************************************)
\* exposureOffset with the factor 2 in place of 2.2.
exposureOffset_TimesTwo(adjustments) == F(adjustments.exposure) * 2

\* adjustments.exposure * 2.2
exposureOffset(adjustments) == RoundDiv(F(adjustments.exposure) * 22, 10)

\* (259 * (contrast + 255)) / (255 * (259 - contrast || 0.0001)), in
\* ten-thousandths.
contrastFactor(adjustments) ==
  LET contrast == clamp(adjustments.contrast, -80, 120)
  IN IF 259 - contrast = 0
     THEN ((259 * (contrast + 255)) \div 255) * 10000 * 10000
     ELSE RoundDiv(259 * (contrast + 255) * 10000, 255 * (259 - contrast))

\* clamp(contrastFactor * (channel - 128) + 128)
applyContrast(channel, factor) ==
  clampByte(Plus(Times(Minus(channel, F(128)), factor, 10000), F(128)))

\* One iteration of the tone and colour loop (lines 178-205): the four values
\* it writes back for the pixel starting at index i.
TonePixel(working, i, adjustments) ==
  LET a == IF i + 3 < Len(working) THEN working[i + 4] ELSE F(DEFAULT_ALPHA)
      offset == exposureOffset(adjustments)
      factor == contrastFactor(adjustments)
      r1 == applyContrast(clampByte(Plus(Load(working, i), offset)), factor)
      g1 == applyContrast(clampByte(Plus(Load(working, i + 1), offset)), factor)
      b1 == applyContrast(clampByte(Plus(Load(working, i + 2), offset)), factor)
      saturation == adjustments.saturation
      vibrance == adjustments.vibrance
      sepia == RoundDiv(F(adjustments.sepiaReduction), 100)
      c2 == adjustSaturation(r1, g1, b1, saturation, vibrance)
      c3 == removeSepia(c2[1], c2[2], c2[3], sepia * 100)
      c4 == applyWarmth(c3[1], c3[2], c3[3], adjustments.warmth)
      c5 == applyShadowHighlight(c4[1], c4[2], c4[3], adjustments.shadowLift,
                                 adjustments.highlightRecovery)
  IN <<clampByte(c5[1]), clampByte(c5[2]), clampByte(c5[3]), clampByte(a)>>

\* The working buffer after the loop of lines 177-206.
ToneLoop(working, adjustments) ==
  LET pixels == [i \in PixelStarts(Len(working)) |-> TonePixel(working, i, adjustments)]
  IN [j \in 1..Len(working) |-> pixels[((j - 1) \div 4) * 4][((j - 1) % 4) + 1]]

\* Math.min(0.85, adjustments.denoise / 100), in hundredths.
denoiseMix(adjustments) == Min2(85, adjustments.denoise)

\* DenoiseLoop mixing all four channels, alpha included.
DenoiseLoop_AllChannels(working, blurred, adjustments) ==
  [j \in 1..Len(working) |-> lerp(working[j], blurred[j], Min2(85, adjustments.denoise))]

\* The working buffer after the loop of lines 212-216.
DenoiseLoop(working, blurred, adjustments) ==
  [j \in 1..Len(working) |->
     IF (j - 1) % 4 = 3
     THEN working[j]
     ELSE lerp(working[j], blurred[j], denoiseMix(adjustments))]

\* The working buffer after the loop of lines 223-235: 0.8 + clarityMix for
\* R, 0.8 + clarityMix * 0.9 for G and B.
ClarityLoop(working, softened, adjustments) ==
  [j \in 1..Len(working) |->
     LET detail == Minus(working[j], softened[j])
         clarity == adjustments.clarity
     IN CASE (j - 1) % 4 = 0 ->
               clampByte(Plus(working[j], Times(detail, 80 + clarity, 100)))
          [] (j - 1) % 4 \in {1, 2} ->
               clampByte(Plus(working[j], Times(detail, 800 + 9 * clarity, 1000)))
          [] OTHER -> working[j]]

\* A store into a Uint8ClampedArray: NaN becomes 0, anything else is clamped
\* to [0, 255] and rounded to the nearest integer, ties to even.
ToUint8Clamped(value) ==
  IF IsNaN(value) THEN 0
  ELSE LET v == Min2(F(255), Max2(0, value))
           q == v \div Scale
           rest == v % Scale
       IN IF 2 * rest > Scale \/ (2 * rest = Scale /\ q % 2 = 1)
          THEN F(q + 1)
          ELSE F(q)

\* Quantize storing into a float array: clamped, but not rounded.
Quantize_NoRounding(working) == [j \in 1..Len(working) |-> clampByte(working[j])]

\* The output buffer (lines 238-241): output[i] = clamp(working[i]).
Quantize(working) == [j \in 1..Len(working) |-> ToUint8Clamped(clampByte(working[j]))]

\* new ImageData(data, sw, sh) succeeds only for a non-empty buffer of whole
\* pixels that fills sh rows of sw pixels; otherwise it throws.
ImageDataAccepts(data, sw, sh) ==
  /\ Len(data) > 0
  /\ Len(data) % 4 = 0
  /\ sw > 0
  /\ (Len(data) \div 4) % sw = 0
  /\ (Len(data) \div 4) \div sw = sh

(***************************************************************************)
(* Images.  A bitmap is [width, height, data]; data holds the bytes as     *)
(* fixed-point values F(0)..F(255).                                        *)
(***************************************************************************)
\* The pixels <<R, G, B, A>> the model's images are made of.
Palette ==
  << <<10, 10, 10, 255>>, <<250, 250, 250, 255>>, <<0, 0, 255, 128>>,
     <<255, 255, 0, 0>>, <<112, 66, 20, 200>>, <<200, 30, 30, 77>> >>

\* The width x height image whose k-th pixel is the (k + shift)-th of the palette.
MakeImage(width, height, shift) ==
  [width |-> width, height |-> height,
   data |-> [j \in 1..(width * height * 4) |->
               F(Palette[((((j - 1) \div 4) + shift) % Len(Palette)) + 1][((j - 1) % 4) + 1])]]

\* The palette positions an image may start at: every other one.
Shifts == {s \in 0..(Len(Palette) - 1) : s % 2 = 0}

Images == {MakeImage(w, h, s) : w \in 1..MaxSide, h \in 1..MaxSide, s \in Shifts}

NoImage == [width |-> 0, height |-> 0, data |-> <<>>]

\* Buffers whose length is not width * height * 4: a pixel short, half a
\* pixel short, a pixel long.
MisshapenData(img) ==
  { SubSeq(img.data, 1, Len(img.data) - 4),
    SubSeq(img.data, 1, Len(img.data) - 2),
    img.data \o <<0, 0, 0, F(255)>> }

(***************************************************************************)
(* State.                                                                  *)
(***************************************************************************)
VARIABLES
  adjustments,   \* page.tsx: the adjustments state
  activePreset,  \* page.tsx: the activePreset state ("none" for null)
  image,         \* page.tsx: the pixels of imageRef.current (NoImage: none loaded)
  effectDue,     \* the effect of page.tsx lines 260-263 is scheduled
  edits,         \* slider edits since the last preset click, reset or upload
  pc,            \* where the current enhanceImageData call stands
  heap,          \* the typed arrays of the current call, by identity
  source,        \* sourceImageData: [width, height, data (a heap identity)]
  adj,           \* the adjustments argument of the current call
  working,       \* identity of the working buffer (0: not yet allocated)
  blurred,       \* identity of the denoise blur's result (0: none)
  softened,      \* identity of the clarity blur's result (0: none)
  output,        \* identity of the output buffer (0: none)
  result,        \* the ImageData the call returned (NoResult: none)
  entry,         \* the contents of the caller's buffer when the call began
  trace,         \* the passes the current call has run, in order
  opName,        \* the scalar colour operation last applied on its own ("none")
  opArgs,        \* the channels <<r, g, b>> handed to it
  opResult,      \* the three values it returned
  objects,       \* the adjustments objects alive in the page, by identity
  adjustmentsRef,\* identity of the object the adjustments state holds
  originalUrl,   \* page.tsx: the originalUrl state (NoImage for null)
  restoredUrl,   \* page.tsx: the restoredUrl state (NoUrl for null)
  processing,    \* page.tsx: the processing state
  canvas,        \* the bitmap of the hidden canvas: [width, height, data]
  runs,          \* the processImage runs waiting at their await, oldest first
  loading,       \* the file being read and decoded (NoImage: none)
  frameLeft,     \* runs still to resume in the current animation frame
  events         \* user events so far

pageVars == <<adjustments, activePreset, image, effectDue, edits>>

callVars == <<pc, heap, source, adj, working, blurred, softened, output, result, entry, trace>>

opVars == <<opName, opArgs, opResult>>

browserVars == <<objects, adjustmentsRef, originalUrl, restoredUrl, processing,
                 canvas, runs, loading, frameLeft, events>>

vars == <<adjustments, activePreset, image, effectDue, edits,
          pc, heap, source, adj, working, blurred, softened, output, result, entry, trace,
          opName, opArgs, opResult,
          objects, adjustmentsRef, originalUrl, restoredUrl, processing,
          canvas, runs, loading, frameLeft, events>>

NoResult == [width |-> 0, height |-> 0, data |-> 0]

NoSource == [width |-> 0, height |-> 0, data |-> 0]

\* restoredUrl before any run has finished (useState(null), line 199).
NoUrl == [type |-> "none", width |-> 0, height |-> 0, data |-> <<>>]

\* The module-level adjustments objects, by identity: DEFAULT_ADJUSTMENTS,
\* CLEAN_SLATE_ADJUSTMENTS and the adjustments object of each preset.
ModuleObjects ==
  <<DEFAULT_ADJUSTMENTS, CLEAN_SLATE_ADJUSTMENTS>>
    \o [k \in 1..Len(PRESETS) |-> PRESETS[k].adjustments]

DefaultRef == 1

CleanSlateRef == 2

PresetRef(k) == CleanSlateRef + k

\* The smallest identity no live object has.
NewRef(objs) == CHOOSE id \in 1..(Cardinality(DOMAIN objs) + 1) :
                  /\ id \notin DOMAIN objs
                  /\ \A smaller \in 1..(id - 1) : smaller \in DOMAIN objs

\* useState({ ...CLEAN_SLATE_ADJUSTMENTS }) (line 197) and the other states
\* and refs of Home (lines 192-206) before any event.
BrowserInit ==
  /\ objects = [id \in 1..(Len(ModuleObjects) + 1) |->
                 IF id <= Len(ModuleObjects) THEN ModuleObjects[id]
                 ELSE CLEAN_SLATE_ADJUSTMENTS]
  /\ adjustmentsRef = Len(ModuleObjects) + 1
  /\ originalUrl = NoImage
  /\ restoredUrl = NoUrl
  /\ processing = FALSE
  /\ canvas = NoImage
  /\ runs = <<>>
  /\ loading = NoImage
  /\ frameLeft = 0
  /\ events = 0

\* No enhanceImageData call is running: event handlers and effects can run.
AtRest == pc \in {"idle", "done", "threw"}

\* The buffers of a finished call are dropped.
ClearCall ==
  /\ pc' = "idle"
  /\ heap' = <<>>
  /\ source' = NoSource
  /\ adj' = CLEAN_SLATE_ADJUSTMENTS
  /\ working' = 0
  /\ blurred' = 0
  /\ softened' = 0
  /\ output' = 0
  /\ result' = NoResult
  /\ entry' = <<>>
  /\ trace' = <<>>

\* enhanceImageData(sourceImageData, adjustments) is entered.
StartCall(width, height, data, a) ==
  /\ pc' = "copy"
  /\ heap' = <<data>>
  /\ source' = [width |-> width, height |-> height, data |-> 1]
  /\ adj' = a
  /\ working' = 0
  /\ blurred' = 0
  /\ softened' = 0
  /\ output' = 0
  /\ result' = NoResult
  /\ entry' = data
  /\ trace' = <<>>

\* processImage(customAdjustments) (page.tsx lines 226-258): without an image
\* it returns at once; with one it reads the image's pixels from the canvas
\* and hands them to enhanceImageData.  Here the call follows at once: the
\* animation frame processImage awaits in between, and the runs that overlap
\* across it, are not part of this specification, in which calls of the
\* synchronous enhanceImageData come one after the other as they do in the
\* browser.
processImage(a) ==
  IF image = NoImage
  THEN ClearCall
  ELSE StartCall(image.width, image.height, image.data, a)

\* The page after Home() is first rendered: no image, neutral adjustments.
PageInit ==
  /\ adjustments = CLEAN_SLATE_ADJUSTMENTS
  /\ activePreset = "none"
  /\ image = NoImage
  /\ effectDue = FALSE
  /\ edits = 0
  /\ pc = "idle"
  /\ heap = <<>>
  /\ source = NoSource
  /\ adj = CLEAN_SLATE_ADJUSTMENTS
  /\ working = 0
  /\ blurred = 0
  /\ softened = 0
  /\ output = 0
  /\ result = NoResult
  /\ entry = <<>>
  /\ trace = <<>>

Init ==
  /\ PageInit
  /\ BrowserInit
  /\ opName = "none"
  /\ opArgs = <<>>
  /\ opResult = <<>>

(***************************************************************************)
(* Page handlers (page.tsx).                                               *)
(***************************************************************************)
\* handleFile and the image's onload (lines 265-299), as one step: the file
\* is an image and its reading and decoding succeed.
Upload ==
  /\ AtRest /\ ~effectDue
  /\ \E img \in Images : image' = img
  /\ activePreset' = "auto"
  /\ adjustments' = DEFAULT_ADJUSTMENTS
  /\ effectDue' = TRUE
  /\ edits' = 0
  /\ ClearCall
  /\ UNCHANGED <<opVars, browserVars>>

\* A preset button's onClick (lines 328-332).
PresetClick ==
  /\ AtRest /\ ~effectDue
  /\ \E k \in 1..Len(PRESETS) :
       /\ activePreset' = PRESETS[k].id
       /\ adjustments' = PRESETS[k].adjustments
       /\ processImage(PRESETS[k].adjustments)
  /\ effectDue' = TRUE
  /\ edits' = 0
  /\ image' = image
  /\ UNCHANGED <<opVars, browserVars>>

\* resetAdjustments (lines 354-357) and the reset button's onClick (434-439).
ResetClick ==
  /\ AtRest /\ ~effectDue
  /\ image # NoImage
  /\ activePreset' = "none"
  /\ adjustments' = CLEAN_SLATE_ADJUSTMENTS
  /\ processImage(CLEAN_SLATE_ADJUSTMENTS)
  /\ effectDue' = TRUE
  /\ edits' = 0
  /\ image' = image
  /\ UNCHANGED <<opVars, browserVars>>

\* The automatic restoration button's onClick (lines 446-453).
AutoClick ==
  /\ AtRest /\ ~effectDue
  /\ image # NoImage
  /\ activePreset' = PRESETS[1].id
  /\ adjustments' = PRESETS[1].adjustments
  /\ processImage(PRESETS[1].adjustments)
  /\ effectDue' = TRUE
  /\ edits' = 0
  /\ image' = image
  /\ UNCHANGED <<opVars, browserVars>>

\* The reprocess button's onClick (line 518).
ReprocessClick ==
  /\ AtRest /\ ~effectDue
  /\ image # NoImage
  /\ processImage(adjustments)
  /\ UNCHANGED <<pageVars, opVars, browserVars>>

\* A slider's onChange (lines 576-582).
SliderChange ==
  /\ AtRest /\ ~effectDue
  /\ edits < MaxEdits
  /\ \E k \in 1..Len(SLIDERS) : \E value \in SliderPositions(SLIDERS[k]) :
       /\ value >= SLIDERS[k].min /\ value <= SLIDERS[k].max
       /\ value # adjustments[SLIDERS[k].key]
       /\ adjustments' = [adjustments EXCEPT ![SLIDERS[k].key] = value]
  /\ activePreset' = "none"
  /\ effectDue' = TRUE
  /\ edits' = edits + 1
  /\ image' = image
  /\ ClearCall
  /\ UNCHANGED <<opVars, browserVars>>

\* The effect on [adjustments, originalUrl, processImage] (lines 260-263).
AdjustmentsEffect ==
  /\ AtRest /\ effectDue
  /\ effectDue' = FALSE
  /\ processImage(adjustments)
  /\ UNCHANGED <<adjustments, activePreset, image, edits>>
  /\ UNCHANGED <<opVars, browserVars>>

\* A caller other than the page hands enhanceImageData an object whose
\* buffer does not have width * height * 4 entries.
ExternalCall ==
  /\ AtRest /\ ~effectDue
  /\ image = NoImage /\ adjustments = CLEAN_SLATE_ADJUSTMENTS /\ edits = 0
  /\ activePreset = "none"
  /\ \E img \in Images : \E data \in MisshapenData(img) :
       \E k \in 1..Len(PRESETS) : \E a \in {CLEAN_SLATE_ADJUSTMENTS, PRESETS[k].adjustments} :
         StartCall(img.width, img.height, data, a)
  /\ UNCHANGED <<pageVars, opVars, browserVars>>

(***************************************************************************)
(* enhanceImageData, step by step.  The function is synchronous: no handler *)
(* runs between its steps.                                                 *)
(***************************************************************************)
\* CopyToWorking handing back the caller's buffer itself instead of a copy.
CopyToWorking_Alias(h, dataId) == [heap |-> h, id |-> dataId]

\* Lines 162-166: a new Float32Array receives a copy of data.
CopyToWorking(h, dataId) ==
  [heap |-> Append(h, [j \in 1..Len(h[dataId]) |-> h[dataId][j]]), id |-> Len(h) + 1]

\* boxBlur called on the buffer sourceId: its result is a new buffer.
BlurCall(h, sourceId, width, height) ==
  [heap |-> Append(h, boxBlur(h[sourceId], width, height)), id |-> Len(h) + 1]

\* Lines 238-241: a new Uint8ClampedArray receives the quantized working buffer.
QuantizeToOutput(h, workingId) ==
  [heap |-> Append(h, Quantize(h[workingId])), id |-> Len(h) + 1]

\* DenoiseEnabled with the test written "denoise >= 0".
DenoiseEnabled_NonNegative(a) == a.denoise >= 0

\* Line 208.
DenoiseEnabled(a) == a.denoise > 0

\* Line 219.
ClarityEnabled(a) == a.clarity > 0

\* ReturnedImageData with width and height exchanged.
ReturnedImageData_Swapped(outputId, width, height) ==
  [width |-> height, height |-> width, data |-> outputId]

\* Line 243: the ImageData handed back, built over the output buffer.
ReturnedImageData(outputId, width, height) ==
  [width |-> width, height |-> height, data |-> outputId]

CopyStep ==
  /\ pc = "copy"
  /\ LET copied == CopyToWorking(heap, source.data)
     IN /\ heap' = copied.heap
        /\ working' = copied.id
  /\ trace' = Append(trace, "copy")
  /\ pc' = "tone"
  /\ UNCHANGED <<source, adj, blurred, softened, output, result, entry>>
  /\ UNCHANGED <<pageVars, opVars, browserVars>>

ToneStep ==
  /\ pc = "tone"
  /\ heap' = [heap EXCEPT ![working] = ToneLoop(heap[working], adj)]
  /\ trace' = Append(trace, "tone")
  /\ pc' = "denoise"
  /\ UNCHANGED <<source, adj, working, blurred, softened, output, result, entry>>
  /\ UNCHANGED <<pageVars, opVars, browserVars>>

DenoiseBlur ==
  /\ pc = "denoise"
  /\ DenoiseEnabled(adj)
  /\ LET call == BlurCall(heap, working, source.width, source.height)
     IN /\ heap' = call.heap
        /\ blurred' = call.id
  /\ trace' = Append(trace, "blur")
  /\ pc' = "denoiseMix"
  /\ UNCHANGED <<source, adj, working, softened, output, result, entry>>
  /\ UNCHANGED <<pageVars, opVars, browserVars>>

DenoiseMixStep ==
  /\ pc = "denoiseMix"
  /\ heap' = [heap EXCEPT ![working] = DenoiseLoop(heap[working], heap[blurred], adj)]
  /\ trace' = Append(trace, "denoiseMix")
  /\ pc' = "clarity"
  /\ UNCHANGED <<source, adj, working, blurred, softened, output, result, entry>>
  /\ UNCHANGED <<pageVars, opVars, browserVars>>

DenoiseSkip ==
  /\ pc = "denoise"
  /\ ~DenoiseEnabled(adj)
  /\ pc' = "clarity"
  /\ UNCHANGED <<heap, source, adj, working, blurred, softened, output, result, entry, trace>>
  /\ UNCHANGED <<pageVars, opVars, browserVars>>

\* ClarityBlur reading the first blur's result in place of the working buffer.
ClarityBlur_OfFirstBlur ==
  /\ pc = "clarity"
  /\ ClarityEnabled(adj)
  /\ LET call == BlurCall(heap, IF blurred # 0 THEN blurred ELSE working,
                          source.width, source.height)
     IN /\ heap' = call.heap
        /\ softened' = call.id
  /\ trace' = Append(trace, "blur")
  /\ pc' = "clarityBoost"
  /\ UNCHANGED <<source, adj, working, blurred, output, result, entry>>
  /\ UNCHANGED <<pageVars, opVars, browserVars>>

ClarityBlur ==
  /\ pc = "clarity"
  /\ ClarityEnabled(adj)
  /\ LET call == BlurCall(heap, working, source.width, source.height)
     IN /\ heap' = call.heap
        /\ softened' = call.id
  /\ trace' = Append(trace, "blur")
  /\ pc' = "clarityBoost"
  /\ UNCHANGED <<source, adj, working, blurred, output, result, entry>>
  /\ UNCHANGED <<pageVars, opVars, browserVars>>

ClarityBoostStep ==
  /\ pc = "clarityBoost"
  /\ heap' = [heap EXCEPT ![working] = ClarityLoop(heap[working], heap[softened], adj)]
  /\ trace' = Append(trace, "clarityBoost")
  /\ pc' = "quantize"
  /\ UNCHANGED <<source, adj, working, blurred, softened, output, result, entry>>
  /\ UNCHANGED <<pageVars, opVars, browserVars>>

ClaritySkip ==
  /\ pc = "clarity"
  /\ ~ClarityEnabled(adj)
  /\ pc' = "quantize"
  /\ UNCHANGED <<heap, source, adj, working, blurred, softened, output, result, entry, trace>>
  /\ UNCHANGED <<pageVars, opVars, browserVars>>

QuantizeStep ==
  /\ pc = "quantize"
  /\ LET stored == QuantizeToOutput(heap, working)
     IN /\ heap' = stored.heap
        /\ output' = stored.id
  /\ trace' = Append(trace, "quantize")
  /\ pc' = "return"
  /\ UNCHANGED <<source, adj, working, blurred, softened, result, entry>>
  /\ UNCHANGED <<pageVars, opVars, browserVars>>

\* Line 243: new ImageData(output, width, height) returns the bitmap or throws.
ReturnStep ==
  /\ pc = "return"
  /\ IF ImageDataAccepts(heap[output], source.width, source.height)
     THEN /\ result' = ReturnedImageData(output, source.width, source.height)
          /\ pc' = "done"
     ELSE /\ result' = NoResult
          /\ pc' = "threw"
  /\ UNCHANGED <<heap, source, adj, working, blurred, softened, output, entry, trace>>
  /\ UNCHANGED <<pageVars, opVars, browserVars>>

Next ==
  \/ Upload
  \/ PresetClick
  \/ ResetClick
  \/ AutoClick
  \/ ReprocessClick
  \/ SliderChange
  \/ AdjustmentsEffect
  \/ ExternalCall
  \/ CopyStep
  \/ ToneStep
  \/ DenoiseBlur
  \/ DenoiseMixStep
  \/ DenoiseSkip
  \/ ClarityBlur
  \/ ClarityBoostStep
  \/ ClaritySkip
  \/ QuantizeStep
  \/ ReturnStep

Spec == Init /\ [][Next]_vars

(***************************************************************************)
(* The scalar colour operations applied on their own: a triple of channels *)
(* in [0, 255] and strengths within the sliders' bounds.                   *)
(***************************************************************************)
ChannelSamples == {F(0), F(10), F(128), F(250), F(255)}

\* The positions of the slider of an adjustment key that lie on its track.
PositionsOf(key) ==
  LET slider == SLIDERS[CHOOSE k \in 1..Len(SLIDERS) : SLIDERS[k].key = key]
  IN {v \in SliderPositions(slider) : v >= slider.min /\ v <= slider.max}

InitOps ==
  /\ PageInit
  /\ BrowserInit
  /\ opName = "none"
  /\ opArgs \in {<<r, g, b>> : r \in ChannelSamples, g \in ChannelSamples, b \in ChannelSamples}
  /\ opResult = <<>>

CallAdjustSaturation ==
  /\ \E amount \in PositionsOf("saturation") : \E vibrance \in PositionsOf("vibrance") :
       opResult' = adjustSaturation(opArgs[1], opArgs[2], opArgs[3], amount, vibrance)
  /\ opName' = "adjustSaturation"
  /\ UNCHANGED <<opArgs, pageVars, callVars, browserVars>>

CallRemoveSepia ==
  /\ \E amount \in PositionsOf("sepiaReduction") :
       opResult' = removeSepia(opArgs[1], opArgs[2], opArgs[3], F(amount))
  /\ opName' = "removeSepia"
  /\ UNCHANGED <<opArgs, pageVars, callVars, browserVars>>

CallApplyWarmth ==
  /\ \E warmth \in PositionsOf("warmth") :
       opResult' = applyWarmth(opArgs[1], opArgs[2], opArgs[3], warmth)
  /\ opName' = "applyWarmth"
  /\ UNCHANGED <<opArgs, pageVars, callVars, browserVars>>

CallApplyShadowHighlight ==
  /\ \E shadowLift \in PositionsOf("shadowLift") :
       \E highlightRecovery \in PositionsOf("highlightRecovery") :
         opResult' = applyShadowHighlight(opArgs[1], opArgs[2], opArgs[3],
                                          shadowLift, highlightRecovery)
  /\ opName' = "applyShadowHighlight"
  /\ UNCHANGED <<opArgs, pageVars, callVars, browserVars>>

NextOps ==
  \/ CallAdjustSaturation
  \/ CallRemoveSepia
  \/ CallApplyWarmth
  \/ CallApplyShadowHighlight

SpecOps == InitOps /\ [][NextOps]_vars

(***************************************************************************)
(* enhanceImageData on its own: one call with a well-shaped bitmap and     *)
(* adjustments that switch each blur pass on or off, run step by step.     *)
(***************************************************************************)
CallAdjustments ==
  {CLEAN_SLATE_ADJUSTMENTS}
    \cup {PRESETS[k].adjustments : k \in 1..Len(PRESETS)}
    \cup {[PRESETS[k].adjustments EXCEPT !.denoise = d, !.clarity = c] :
            k \in 1..Len(PRESETS), d \in PositionsOf("denoise"),
            c \in PositionsOf("clarity")}

InitCall ==
  /\ BrowserInit
  /\ adjustments = CLEAN_SLATE_ADJUSTMENTS /\ activePreset = "none"
  /\ image = NoImage /\ effectDue = FALSE /\ edits = 0
  /\ opName = "none" /\ opArgs = <<>> /\ opResult = <<>>
  /\ \E img \in Images :
       /\ heap = <<img.data>>
       /\ source = [width |-> img.width, height |-> img.height, data |-> 1]
       /\ entry = img.data
  /\ adj \in CallAdjustments
  /\ pc = "copy"
  /\ working = 0 /\ blurred = 0 /\ softened = 0 /\ output = 0
  /\ result = NoResult /\ trace = <<>>

NextCall ==
  \/ CopyStep
  \/ ToneStep
  \/ DenoiseBlur
  \/ DenoiseMixStep
  \/ DenoiseSkip
  \/ ClarityBlur
  \/ ClarityBoostStep
  \/ ClaritySkip
  \/ QuantizeStep
  \/ ReturnStep

SpecCall == InitCall /\ [][NextCall]_vars

(***************************************************************************)
(* boxBlur on its own: buffers up to MaxBlurSide x MaxBlurSide, blurred    *)
(* up to MaxBlurs times in a row (the second pass reads the fractional     *)
(* values the first one wrote, as the clarity pass does after denoise).    *)
(***************************************************************************)
MaxBlurSide == 3

MaxBlurs == 2

BlurInputs ==
  {MakeImage(w, h, s) : w \in 1..MaxBlurSide, h \in 1..MaxBlurSide,
                        s \in 0..(Len(Palette) - 1)}

InitBlur ==
  /\ BrowserInit
  /\ adjustments = CLEAN_SLATE_ADJUSTMENTS /\ activePreset = "none"
  /\ image = NoImage /\ effectDue = FALSE /\ edits = 0
  /\ opName = "none" /\ opArgs = <<>> /\ opResult = <<>>
  /\ \E img \in BlurInputs :
       /\ pc = "blurInput"
       /\ heap = <<img.data>>
       /\ source = [width |-> img.width, height |-> img.height, data |-> 1]
       /\ entry = img.data
  /\ adj = CLEAN_SLATE_ADJUSTMENTS
  /\ working = 1 /\ blurred = 0 /\ softened = 0 /\ output = 0
  /\ result = NoResult /\ trace = <<>>

\* boxBlur(working, width, height) of the newest buffer.
BlurAgain ==
  /\ pc \in {"blurInput", "blurOutput"}
  /\ Len(trace) < MaxBlurs
  /\ LET call == BlurCall(heap, Len(heap), source.width, source.height)
     IN /\ heap' = call.heap
        /\ blurred' = call.id
  /\ pc' = "blurOutput"
  /\ trace' = Append(trace, "blur")
  /\ UNCHANGED <<source, adj, working, softened, output, result, entry>>
  /\ UNCHANGED <<pageVars, opVars, browserVars>>

SpecBlur == InitBlur /\ [][BlurAgain]_vars

(***************************************************************************)
(* The page with its asynchronous runs (page.tsx lines 192-357).  A        *)
(* processImage run draws, reads the pixels and sets processing before its *)
(* await; what follows the await runs in a later animation frame.  The     *)
(* callbacks of requestAnimationFrame run in the order they were           *)
(* registered, so the waiting runs resume oldest first.  A click or change *)
(* handler, the render it causes and the effects of that render form one   *)
(* task: nothing else runs while effectDue holds.                          *)
(***************************************************************************)
MaxEvents == 3

\* The sliders the user moves: one tone slider and the two that switch the
\* blur passes on and off.
PageSliders == {k \in 1..Len(SLIDERS) : SLIDERS[k].key \in {"exposure", "clarity", "denoise"}}

\* The files a user drops or selects.
PageImages == {MakeImage(1, 1, 0), MakeImage(2, 1, 4)}

\* The denoise block (lines 208-217) as a function of the working buffer.
DenoisePass(buffer, width, height, a) ==
  IF DenoiseEnabled(a)
  THEN DenoiseLoop(buffer, boxBlur(buffer, width, height), a)
  ELSE buffer

\* The clarity block (lines 219-236) as a function of the working buffer.
ClarityPass(buffer, width, height, a) ==
  IF ClarityEnabled(a)
  THEN ClarityLoop(buffer, boxBlur(buffer, width, height), a)
  ELSE buffer

\* enhanceImageData (lines 157-244) on a well-shaped bitmap, start to finish.
enhanceImageData(sourceImageData, a) ==
  [width |-> sourceImageData.width,
   height |-> sourceImageData.height,
   data |-> Quantize(ClarityPass(DenoisePass(ToneLoop(sourceImageData.data, a),
                                             sourceImageData.width,
                                             sourceImageData.height, a),
                                 sourceImageData.width, sourceImageData.height, a))]

\* DrawImage leaving the canvas as it was: no resize, no redraw.
DrawImage_Skipped(cv, img) == cv

\* canvas.width = ..., canvas.height = ..., context.drawImage(image, 0, 0)
\* (lines 237-239): the canvas takes the image's size and pixels.
DrawImage(cv, img) == [width |-> img.width, height |-> img.height, data |-> img.data]

\* context.getImageData(0, 0, canvas.width, canvas.height) (line 241).
GetImageData(cv) == [width |-> cv.width, height |-> cv.height, data |-> cv.data]

\* context.putImageData(enhanced, 0, 0) (line 251): the pixels of the bitmap
\* that fall inside the canvas replace the canvas's.
PutImageData(cv, bitmap) ==
  [cv EXCEPT !.data =
     [j \in 1..Len(cv.data) |->
        LET pixel == (j - 1) \div 4
            x == pixel % cv.width
            y == pixel \div cv.width
        IN IF x < bitmap.width /\ y < bitmap.height
           THEN bitmap.data[(y * bitmap.width + x) * 4 + ((j - 1) % 4) + 1]
           ELSE cv.data[j]]]

\* canvas.toDataURL("image/jpeg", 0.92) (line 253): an encoding of the canvas.
ToDataURL(cv) == [type |-> "image/jpeg", width |-> cv.width, height |-> cv.height,
                  data |-> cv.data]

\* The objects still referenced: the module's, the adjustments state's and
\* those the waiting runs hold.
Collect(objs, ref, rs) ==
  [id \in {i \in DOMAIN objs : \/ i <= Len(ModuleObjects)
                               \/ i = ref
                               \/ \E r \in 1..Len(rs) : rs[r].adjustments = i}
     |-> objs[id]]

\* setAdjustments(value) with a newly created object.
SetAdjustments(value) ==
  LET id == NewRef(objects)
  IN /\ adjustmentsRef' = id
     /\ objects' = Collect((id :> value) @@ objects, id, runs')
     /\ adjustments' = value

\* The part of processImage before its await (lines 228-243), called with
\* the adjustments object ref (customAdjustments ?? adjustments).
processImageBegin(ref) ==
  IF image = NoImage
  THEN UNCHANGED <<canvas, runs, processing>>
  ELSE LET drawn == DrawImage(canvas, image)
       IN /\ canvas' = drawn
          /\ runs' = Append(runs, [sourceData |-> GetImageData(drawn),
                                   adjustments |-> ref])
          /\ processing' = TRUE

\* { ...preset.adjustments } merged into the previous adjustments: only the
\* fields in which the preset differs from DEFAULT_ADJUSTMENTS are taken.
PresetObject_MergedIntoPrevious(k) ==
  [key \in DOMAIN objects[PresetRef(k)] |->
     IF objects[PresetRef(k)][key] # objects[DefaultRef][key]
     THEN objects[PresetRef(k)][key]
     ELSE objects[adjustmentsRef][key]]

\* { ...preset.adjustments } (line 330).
PresetObject(k) == objects[PresetRef(k)]

\* No render is pending and no animation frame is under way: the next task
\* may be a user event, a finished image load or an animation frame.
BetweenTasks == ~effectDue /\ frameLeft = 0

\* handleFile for an image file (lines 265-275, 296); reading and decoding
\* the file go on in the background.
HandleFile ==
  /\ BetweenTasks /\ events < MaxEvents
  /\ loading = NoImage
  /\ \E img \in PageImages : loading' = img
  /\ activePreset' = "auto"
  /\ UNCHANGED <<canvas, runs, processing>>
  /\ SetAdjustments(objects[DefaultRef])
  /\ effectDue' = TRUE
  /\ edits' = 0
  /\ events' = events + 1
  /\ UNCHANGED <<image, originalUrl, restoredUrl, frameLeft, callVars, opVars>>

\* reader.onload and image.onload (lines 279-289).  The data URL of a file is
\* a function of its contents; the effect on [adjustments, originalUrl,
\* processImage] is due only if originalUrl changed.
ImageOnload ==
  /\ BetweenTasks
  /\ loading # NoImage
  /\ image' = loading
  /\ originalUrl' = loading
  /\ restoredUrl' = NoUrl
  /\ effectDue' = (originalUrl # loading)
  /\ loading' = NoImage
  /\ UNCHANGED <<adjustments, activePreset, edits, objects, adjustmentsRef, processing,
                 canvas, runs, frameLeft, events, callVars, opVars>>

\* A preset button's onClick (lines 328-332).
PresetButton ==
  /\ BetweenTasks /\ events < MaxEvents
  /\ \E k \in 1..Len(PRESETS) :
       /\ activePreset' = PRESETS[k].id
       /\ processImageBegin(PresetRef(k))
       /\ SetAdjustments(PresetObject(k))
  /\ effectDue' = TRUE
  /\ edits' = 0
  /\ events' = events + 1
  /\ UNCHANGED <<image, originalUrl, restoredUrl, loading, frameLeft, callVars, opVars>>

\* resetAdjustments (lines 354-357) and the reset button's onClick (434-439).
ResetButton ==
  /\ BetweenTasks /\ events < MaxEvents
  /\ originalUrl # NoImage
  /\ activePreset' = "none"
  /\ processImageBegin(CleanSlateRef)
  /\ SetAdjustments(objects[CleanSlateRef])
  /\ effectDue' = TRUE
  /\ edits' = 0
  /\ events' = events + 1
  /\ UNCHANGED <<image, originalUrl, restoredUrl, loading, frameLeft, callVars, opVars>>

\* The automatic restoration button's onClick (lines 446-453).
AutoButton ==
  /\ BetweenTasks /\ events < MaxEvents
  /\ originalUrl # NoImage
  /\ activePreset' = PRESETS[1].id
  /\ processImageBegin(PresetRef(1))
  /\ SetAdjustments(PresetObject(1))
  /\ effectDue' = TRUE
  /\ edits' = 0
  /\ events' = events + 1
  /\ UNCHANGED <<image, originalUrl, restoredUrl, loading, frameLeft, callVars, opVars>>

\* The reprocess button's onClick (line 518); the button is disabled while
\* processing holds (line 517).
ReprocessButton ==
  /\ BetweenTasks /\ events < MaxEvents
  /\ originalUrl # NoImage
  /\ ~processing
  /\ processImageBegin(adjustmentsRef)
  /\ events' = events + 1
  /\ UNCHANGED <<adjustments, activePreset, image, effectDue, edits, objects,
                 adjustmentsRef, originalUrl, restoredUrl, loading, frameLeft,
                 callVars, opVars>>

\* A slider's onChange (lines 576-582): { ...prev, [slider.key]: value }.
SliderOnChange ==
  /\ BetweenTasks /\ events < MaxEvents
  /\ edits < MaxEdits
  /\ UNCHANGED <<canvas, runs, processing>>
  /\ \E k \in PageSliders : \E value \in SliderPositions(SLIDERS[k]) :
       /\ value >= SLIDERS[k].min /\ value <= SLIDERS[k].max
       /\ value # objects[adjustmentsRef][SLIDERS[k].key]
       /\ SetAdjustments([objects[adjustmentsRef] EXCEPT ![SLIDERS[k].key] = value])
  /\ activePreset' = "none"
  /\ effectDue' = TRUE
  /\ edits' = edits + 1
  /\ events' = events + 1
  /\ UNCHANGED <<image, originalUrl, restoredUrl, loading, frameLeft, callVars, opVars>>

\* The effect on [adjustments, originalUrl, processImage] (lines 260-263),
\* run with the render that follows the change.
EffectOnAdjustments ==
  /\ effectDue
  /\ effectDue' = FALSE
  /\ IF originalUrl = NoImage
     THEN UNCHANGED <<canvas, runs, processing>>
     ELSE processImageBegin(adjustmentsRef)
  /\ UNCHANGED <<adjustments, activePreset, image, edits, objects, adjustmentsRef,
                 originalUrl, restoredUrl, loading, frameLeft, events, callVars, opVars>>

\* The part of processImage after its await (lines 249-255) for the oldest
\* waiting run.  An animation frame resumes every run that was waiting when
\* it began, oldest first, before any other task.
ResumeRun ==
  /\ ~effectDue
  /\ runs # <<>>
  /\ LET run == Head(runs)
         enhanced == enhanceImageData(run.sourceData, objects[run.adjustments])
         painted == PutImageData(canvas, enhanced)
     IN /\ canvas' = painted
        /\ restoredUrl' = ToDataURL(painted)
  /\ processing' = FALSE
  /\ runs' = Tail(runs)
  /\ objects' = Collect(objects, adjustmentsRef, runs')
  /\ frameLeft' = (IF frameLeft = 0 THEN Len(runs) ELSE frameLeft) - 1
  /\ UNCHANGED <<adjustments, activePreset, image, effectDue, edits, adjustmentsRef,
                 originalUrl, loading, events, callVars, opVars>>

NextPage ==
  \/ HandleFile
  \/ ImageOnload
  \/ PresetButton
  \/ ResetButton
  \/ AutoButton
  \/ ReprocessButton
  \/ SliderOnChange
  \/ EffectOnAdjustments
  \/ ResumeRun

SpecPage == Init /\ [][NextPage]_vars

(***************************************************************************)
(* Properties.                                                             *)
(***************************************************************************)
\* A fixed-point value that is one of the integers 0..255.
IsByte(v) == v >= 0 /\ v <= F(255) /\ v % Scale = 0

\* The number of boxBlur invocations of the current call.
BlurCalls == Cardinality({k \in DOMAIN trace : trace[k] = "blur"})

\* The current call was handed a buffer of width * height * 4 entries.
WellShaped == Len(entry) = source.width * source.height * 4

\* C1 (neutral identity): a call with CLEAN_SLATE_ADJUSTMENTS (all ten
\* parameters 0) returns pixel data equal to the input's, channel for channel.
NeutralIdentity ==
  (pc = "done" /\ adj = CLEAN_SLATE_ADJUSTMENTS) => heap[result.data] = entry

\* A neutral call on a 2 x 2 image has returned.
NeutralIdentityWitness ==
  /\ pc = "done" /\ adj = CLEAN_SLATE_ADJUSTMENTS
  /\ source.width = 2 /\ source.height = 2
  /\ heap[result.data] = entry

\* C2 (clamp closure): every channel of a returned bitmap is an integer in
\* [0, 255], whichever of the denoise and clarity passes ran.
ClampClosure ==
  pc = "done" => \A j \in 1..Len(heap[result.data]) : IsByte(heap[result.data][j])

\* A call that ran both blur passes has returned, its working buffer held
\* fractional values and its output reaches both ends of the range.
ClampClosureWitness ==
  /\ pc = "done" /\ BlurCalls = 2
  /\ \E j \in 1..Len(heap[working]) : heap[working][j] % Scale # 0
  /\ \E j \in 1..Len(heap[output]) : heap[output][j] = F(255)
  /\ \E j \in 1..Len(heap[output]) : heap[output][j] = 0

\* C3 (shape preservation): the returned bitmap has the input's width, height
\* and buffer length width * height * 4.
ShapePreserved ==
  pc = "done" =>
    /\ result.width = source.width
    /\ result.height = source.height
    /\ Len(heap[result.data]) = Len(entry)
    /\ Len(heap[result.data]) = source.width * source.height * 4

\* A call on a 2 x 1 image (width and height differ) has returned.
ShapePreservedWitness ==
  /\ pc = "done" /\ source.width = 2 /\ source.height = 1
  /\ result.width = 2 /\ result.height = 1 /\ Len(heap[result.data]) = 8

\* C4 (alpha pass-through): from the tone loop on, the alpha of every pixel of
\* the working buffer, and of the returned bitmap, is the input pixel's alpha.
AlphaPassThrough ==
  (WellShaped /\ pc \in {"denoise", "denoiseMix", "clarity", "clarityBoost",
                         "quantize", "return", "done"}) =>
    \A i \in PixelStarts(Len(entry)) :
      /\ heap[working][i + 4] = entry[i + 4]
      /\ (pc = "done" => heap[result.data][i + 4] = entry[i + 4])

\* A call with denoise and clarity has returned, and the blurred alpha of some
\* pixel differed from that pixel's own alpha.
AlphaPassThroughWitness ==
  /\ pc = "done" /\ blurred # 0 /\ softened # 0
  /\ \E i \in PixelStarts(Len(entry)) :
       /\ heap[blurred][i + 4] # entry[i + 4]
       /\ heap[softened][i + 4] # entry[i + 4]
       /\ heap[result.data][i + 4] = entry[i + 4]

\* C5 (no mutation, no aliasing): throughout a call the caller's buffer holds
\* the values it held when the call began and the working buffer is another
\* buffer; the returned buffer is not the caller's; each boxBlur call leaves
\* every existing buffer, its source included, unchanged and returns a buffer
\* that did not exist before.
NoMutationNoAlias ==
  [][/\ pc' # "idle" =>
          /\ heap'[source'.data] = entry'
          /\ working' # source'.data
     /\ pc' = "done" => result'.data # source'.data
     /\ (pc \in {"denoise", "clarity"} /\ pc' \in {"denoiseMix", "clarityBoost"}) =>
          LET made == IF pc' = "denoiseMix" THEN blurred' ELSE softened'
          IN /\ made \notin DOMAIN heap
             /\ made \in DOMAIN heap'
             /\ \A id \in DOMAIN heap : heap'[id] = heap[id]]_vars

\* A call that ran both blurs has returned pixel data unlike its input.
NoMutationNoAliasWitness ==
  /\ pc = "done" /\ blurred # 0 /\ softened # 0
  /\ heap[result.data] # entry
  /\ heap[source.data] = entry

\* The pipeline with the denoise and clarity steps removed: copy, tone and
\* colour loop, quantize.
ToneOnlyPipeline(data, a) == Quantize(ToneLoop(data, a))

\* C6 (denoise/clarity skip): with denoise <= 0 and clarity <= 0 a call invokes
\* boxBlur zero times and returns what the pipeline without the two steps
\* returns; with exactly one of the two > 0 it invokes boxBlur exactly once.
DenoiseClaritySkip ==
  pc = "done" =>
    /\ (adj.denoise <= 0 /\ adj.clarity <= 0) =>
         /\ BlurCalls = 0
         /\ heap[result.data] = ToneOnlyPipeline(entry, adj)
    /\ ((adj.denoise > 0) # (adj.clarity > 0)) => BlurCalls = 1

\* A call with denoise = clarity = 0 and a tone adjustment that changed the
\* pixels has returned.
DenoiseClaritySkipWitness ==
  /\ pc = "done" /\ adj.denoise = 0 /\ adj.clarity = 0
  /\ heap[result.data] # entry
  /\ BlurCalls = 0

\* C7 as stated: while "cores" is the active preset, saturation = 24,
\* vibrance = 26, warmth = 12 and the other seven fields are those of
\* DEFAULT_ADJUSTMENTS.
CoresChangesThreeFields ==
  activePreset = "cores" =>
    /\ adjustments.saturation = 24
    /\ adjustments.vibrance = 26
    /\ adjustments.warmth = 12
    /\ \A key \in {"exposure", "contrast", "sepiaReduction", "shadowLift",
                   "highlightRecovery", "clarity", "denoise"} :
         adjustments[key] = DEFAULT_ADJUSTMENTS[key]

\* C7, amended: while "cores" is the active preset, saturation = 24,
\* vibrance = 26, warmth = 12, shadowLift = 8, highlightRecovery = 6 and the
\* other five fields are those of DEFAULT_ADJUSTMENTS.
CoresChangesFiveFields ==
  activePreset = "cores" =>
    /\ adjustments.saturation = 24
    /\ adjustments.vibrance = 26
    /\ adjustments.warmth = 12
    /\ adjustments.shadowLift = 8
    /\ adjustments.highlightRecovery = 6
    /\ \A key \in {"exposure", "contrast", "sepiaReduction", "clarity", "denoise"} :
         adjustments[key] = DEFAULT_ADJUSTMENTS[key]

\* The preset "cores" was clicked with an image loaded and its run returned.
CoresWitness ==
  /\ activePreset = "cores" /\ pc = "done"
  /\ adj = adjustments
  /\ adjustments # DEFAULT_ADJUSTMENTS

\* The adjustments that are neutral but for exposure.
ExposureOnly(a) == a = [CLEAN_SLATE_ADJUSTMENTS EXCEPT !.exposure = a.exposure]

\* C8 (exposure-only run): with the nine other parameters 0, each output R, G
\* and B is the input channel plus 2.2 * exposure, clamped to [0, 255] and
\* quantized; alpha, width and height are unchanged; pixels (10,10,10,255),
\* (250,250,250,255) with exposure 10 become (32,32,32,255),(255,255,255,255).
ExposureOnlyRun ==
  (pc = "done" /\ ExposureOnly(adj)) =>
    /\ result.width = source.width /\ result.height = source.height
    /\ \A j \in 1..Len(entry) :
         heap[result.data][j] =
           IF (j - 1) % 4 = 3
           THEN entry[j]
           ELSE ToUint8Clamped(Min2(F(255), Max2(0, entry[j] + (22 * adj.exposure * Scale) \div 10)))
    /\ (adj.exposure = 10
        /\ entry = <<F(10), F(10), F(10), F(255), F(250), F(250), F(250), F(255)>>) =>
         heap[result.data] = <<F(32), F(32), F(32), F(255), F(255), F(255), F(255), F(255)>>

\* The 2 x 1 example has run with exposure 10.
ExposureOnlyRunWitness ==
  /\ pc = "done" /\ ExposureOnly(adj) /\ adj.exposure = 10
  /\ source.width = 2 /\ source.height = 1
  /\ entry = <<F(10), F(10), F(10), F(255), F(250), F(250), F(250), F(255)>>
  /\ heap[result.data] = <<F(32), F(32), F(32), F(255), F(255), F(255), F(255), F(255)>>

\* C9 as stated: a call whose buffer length differs from width * height * 4
\* never returns a bitmap and is rejected before any pass over the pixels.
RejectedBeforeProcessing ==
  (pc # "idle" /\ ~WellShaped) =>
    /\ pc # "done"
    /\ result = NoResult
    /\ \A k \in DOMAIN trace :
         trace[k] \notin {"tone", "blur", "denoiseMix", "clarityBoost", "quantize"}

\* C10 as stated: each scalar colour operation returns three values within
\* [0, 255] for channels in [0, 255] and strengths within the sliders' bounds.
ScalarOpsWithinRange ==
  opName # "none" => \A c \in 1..3 : opResult[c] >= 0 /\ opResult[c] <= F(255)

\* The rows (or columns) of a side-long axis that lie within one step of p.
AxisNeighbours(p, side) == {q \in (p - 1)..(p + 1) : q >= 0 /\ q < side}

\* The sum of one channel of the buffer over a set of cells <<row, column>>.
RECURSIVE ChannelSum(_, _, _, _)
ChannelSum(buffer, cells, width, channel) ==
  IF cells = {} THEN 0
  ELSE LET cell == CHOOSE c \in cells : TRUE
       IN buffer[(cell[1] * width + cell[2]) * 4 + channel + 1]
            + ChannelSum(buffer, cells \ {cell}, width, channel)

\* C12: every channel of every blurred pixel is the mean of that channel over
\* the in-bounds cells of its 3 x 3 window; the number of samples is the
\* number of in-bounds rows times the number of in-bounds columns, at least 1,
\* 4 at a corner and 6 on an edge of a buffer at least 2 x 2, 1 for 1 x 1.
BoxBlurEdgeHandling ==
  pc = "blurOutput" =>
    LET width == source.width
        height == source.height
        input == heap[blurred - 1]
        blurredBuffer == heap[blurred]
    IN /\ Len(blurredBuffer) = Len(input)
       /\ \A x \in 0..(width - 1), y \in 0..(height - 1) :
            LET rows == AxisNeighbours(y, height)
                columns == AxisNeighbours(x, width)
                samples == Len(WindowCells(x, y, width, height))
                onRowBorder == y \in {0, height - 1}
                onColumnBorder == x \in {0, width - 1}
            IN /\ samples = Cardinality(rows) * Cardinality(columns)
               /\ samples >= 1
               /\ {WindowCells(x, y, width, height)[k] : k \in 1..samples}
                    = rows \X columns
               /\ (width >= 2 /\ height >= 2 /\ onRowBorder /\ onColumnBorder)
                    => samples = 4
               /\ (width >= 2 /\ height >= 2 /\ onRowBorder # onColumnBorder)
                    => samples = 6
               /\ (width = 1 /\ height = 1) => samples = 1
               /\ \A channel \in 0..3 :
                    blurredBuffer[(y * width + x) * 4 + channel + 1]
                      = RoundDiv(ChannelSum(input, rows \X columns, width, channel),
                                 Cardinality(rows) * Cardinality(columns))

\* A 3 x 2 buffer has been blurred: its top-middle pixel is an edge pixel with
\* six samples, its corners have four.
BoxBlurEdgeHandlingWitness ==
  /\ pc = "blurOutput"
  /\ source.width = 3 /\ source.height = 2
  /\ Len(WindowCells(1, 0, 3, 2)) = 6
  /\ Len(WindowCells(0, 0, 3, 2)) = 4
  /\ heap[blurred][5] = RoundDiv(heap[blurred - 1][1] + heap[blurred - 1][5]
                                   + heap[blurred - 1][9] + heap[blurred - 1][13]
                                   + heap[blurred - 1][17] + heap[blurred - 1][21], 6)
  /\ heap[blurred][5] # heap[blurred - 1][5]

\* The passes of a call with denoise and clarity both on, in program order.
BothPassesOrder ==
  <<"copy", "tone", "blur", "denoiseMix", "blur", "clarityBoost", "quantize">>

\* C13: with denoise > 0 and clarity > 0 the passes run in the order tone,
\* blur, denoise mix, blur, clarity boost; boxBlur is invoked exactly twice;
\* the first blur is the blur of the buffer the tone loop produced for every
\* pixel and the second is the blur of that buffer after the denoise mix.
BlurPassOrdering ==
  (pc \in {"copy", "tone", "denoise", "denoiseMix", "clarity", "clarityBoost",
           "quantize", "return", "done", "threw"}
   /\ DenoiseEnabled(adj) /\ ClarityEnabled(adj)) =>
    LET toned == ToneLoop(entry, adj)
        firstBlur == boxBlur(toned, source.width, source.height)
        mixed == DenoiseLoop(toned, firstBlur, adj)
    IN /\ Len(trace) <= Len(BothPassesOrder)
       /\ trace = SubSeq(BothPassesOrder, 1, Len(trace))
       /\ (blurred # 0) = (Len(trace) >= 3)
       /\ (softened # 0) = (Len(trace) >= 5)
       /\ (pc \in {"denoise", "denoiseMix"}) => heap[working] = toned
       /\ pc = "clarity" => heap[working] = mixed
       /\ blurred # 0 => heap[blurred] = firstBlur
       /\ softened # 0 => heap[softened] = boxBlur(mixed, source.width, source.height)
       /\ pc \in {"return", "done", "threw"} => BlurCalls = 2

\* A finished call with both passes on in which the three candidates for the
\* second blur (of the toned buffer, of the first blur, of the mixed buffer)
\* all differ, and the second blur is the one of the mixed buffer.
BlurPassOrderingWitness ==
  /\ pc = "done" /\ DenoiseEnabled(adj) /\ ClarityEnabled(adj)
  /\ source.width = 2 /\ source.height = 2
  /\ BlurCalls = 2
  /\ LET toned == ToneLoop(entry, adj)
         firstBlur == boxBlur(toned, source.width, source.height)
         mixed == DenoiseLoop(toned, firstBlur, adj)
     IN /\ heap[softened] = boxBlur(mixed, source.width, source.height)
        /\ heap[softened] # firstBlur
        /\ heap[softened] # boxBlur(firstBlur, source.width, source.height)
        /\ mixed # toned

\* The preset whose id is the active one.
ActivePresetIndex == CHOOSE k \in 1..Len(PRESETS) : PRESETS[k].id = activePreset

\* C11: a preset click replaces all ten fields of the adjustments by the
\* preset's values, whatever was edited before, and no event ever changes the
\* objects DEFAULT_ADJUSTMENTS, CLEAN_SLATE_ADJUSTMENTS or a preset's
\* adjustments (the state never holds one of them by identity).
PresetReplaces ==
  /\ \A id \in 1..Len(ModuleObjects) : objects[id] = ModuleObjects[id]
  /\ adjustmentsRef \notin 1..Len(ModuleObjects)
  /\ adjustments = objects[adjustmentsRef]
  /\ activePreset # "none" =>
       \A key \in DOMAIN DEFAULT_ADJUSTMENTS :
         adjustments[key] = PRESETS[ActivePresetIndex].adjustments[key]

\* A preset other than the base one was clicked right after a slider edit: the
\* run the edit started is still waiting with the edited object, which no
\* preset equals, and the preset differs from the edited object in the edited
\* field and in others.
PresetReplacesWitness ==
  /\ activePreset = "suave"
  /\ adjustments = PRESETS[ActivePresetIndex].adjustments
  /\ Len(runs) >= 2
  /\ \A k \in 1..Len(PRESETS) : objects[runs[1].adjustments] # PRESETS[k].adjustments
  /\ objects[runs[1].adjustments] # CLEAN_SLATE_ADJUSTMENTS
  /\ runs[Len(runs)].adjustments = adjustmentsRef

\* The bitmap of an uploaded image: its own size and its own pixels.
OriginalBitmap(img) == [width |-> img.width, height |-> img.height, data |-> img.data]

\* C15: the source data of every run is the pixels of an uploaded image as
\* drawn, never what a run has written to the shared canvas; a run that
\* begins takes the pixels of the current image.
RunsReadOriginal ==
  /\ \A r \in 1..Len(runs) : \E img \in PageImages : runs[r].sourceData = OriginalBitmap(img)
  /\ (runs # <<>> /\ effectDue = FALSE /\ loading = NoImage /\ frameLeft = 0) =>
       runs[Len(runs)].sourceData = OriginalBitmap(image)

\* Two runs overlap after an earlier run has written pixels that differ from
\* the original to the canvas and the first of the two has written as well.
RunsReadOriginalWitness ==
  /\ Len(runs) = 1 /\ frameLeft = 1
  /\ restoredUrl # NoUrl
  /\ canvas.data # image.data
  /\ runs[1].sourceData = OriginalBitmap(image)
  /\ events = MaxEvents

\* C14 as stated: with an image loaded, nothing pending and no run in flight,
\* the restored image shown is the pipeline's output for the current image
\* and the current adjustments.
DisplayedIsCurrent ==
  (originalUrl # NoImage /\ BetweenTasks /\ runs = <<>> /\ loading = NoImage) =>
    restoredUrl = ToDataURL(enhanceImageData(OriginalBitmap(image), objects[adjustmentsRef]))

=============================================================================
